---- MODULE Spec2Model ----
(***************************************************************************)
(* Model of the delivery agent of Agentes_IA (src/agents/delivery_agent.py):*)
(* the order tracker MonitoreoAPI, the foreground flow of PideBot that      *)
(* confirms orders, and the background thread _bucle_monitoreo that polls   *)
(* the tracker, notifies the user and drains finished orders.               *)
(*                                                                         *)
(* Time.  The program reads the clock only to subtract a stored timestamp   *)
(* from it (line 259) and to sleep, so a timestamp is kept as the seconds   *)
(* elapsed since it was taken (datetime.now() - timestamp) and a sleep as   *)
(* the seconds left of it.  The only test on an elapsed time is `> 15`, so  *)
(* elapsed times stop growing once they are beyond the threshold.  Code     *)
(* steps take no time; time passes only while every thread is asleep or     *)
(* finished and the foreground is between requests, and a sleeping thread   *)
(* wakes exactly when its sleep ends.                                       *)
(*                                                                         *)
(* Spec is the whole agent.  SpecRastreador is the tracker alone, called    *)
(* directly at arbitrary times; it also keeps, per order, the time since    *)
(* the first query (desde_primera), which Spec leaves untouched.  SpecJusto *)
(* is Spec with threads that are scheduled and a clock that advances.       *)
(*                                                                         *)
(* SpecCompleto is Spec with the requests of procesar_solicitud that change  *)
(* nothing and only return a text, which Spec leaves out.                   *)
(*                                                                         *)
(* SpecDisenio is the room layout placer DesignVisualizer of                *)
(* src/agents/room_design_agent.py: a call of generate_room_layout and the  *)
(* calls that follow it on the same DesignVisualizer.                       *)
(***************************************************************************)
EXTENDS Integers, Sequences, FiniteSets

\* ---------------------------------------------------------------- bounds
MaxPedidos == 2      \* orders that can be confirmed in one run
MaxTiempo  == 80     \* SpecRastreador follows an order this long
Paso       == 5      \* largest advance of the clock in one step
MaxFallos  == 1      \* exceptions the notification callback may raise
MaxRastreados == 1   \* identifiers queried in SpecRastreador
MaxProductos == 1    \* products of the catalogue the user asks for
MaxMuebles == 3      \* furniture items given to one call of the placer

\* ------------------------------------------------------ program constants
UMBRAL          == 15    \* seconds after which a query advances the state
INTERVALO       == 10    \* time.sleep after a complete pass
ESPERA_ERROR    == 5     \* time.sleep in the except handler

\* an attribute that may be None: None is the empty tuple, and a value that
\* is set is the tuple of that value
None == << >>

Valor(x) == << x >>

\* what a foreground request returns is kept by its kind
Respuesta(tipo) == [ tipo |-> tipo ]

\* no foreground request returned in the last step
SIN_RESPUESTA == Respuesta("ninguna")

Pedidos == 1..MaxPedidos
Hilos   == 1..MaxPedidos     \* every thread is started by one confirmation

\* class EstadoPedido
CONFIRMANDO         == "CONFIRMANDO"
EN_PREPARACION      == "EN_PREPARACION"
MOTORIZADO_ASIGNADO == "MOTORIZADO_ASIGNADO"
EN_CAMINO           == "EN_CAMINO"
ENTREGADO           == "ENTREGADO"
CANCELADO           == "CANCELADO"

\* MonitoreoAPI.progresion_estados
progresion_estados ==
    << CONFIRMANDO, EN_PREPARACION, MOTORIZADO_ASIGNADO, EN_CAMINO, ENTREGADO >>

VARIABLES
    pedidos_estado,    \* MonitoreoAPI.pedidos_estado: id -> entry
    pedidos_activos,   \* PideBot.pedidos_activos, in insertion order
    monitoreo_activo,  \* PideBot.monitoreo_activo
    emitidos,          \* number of order ids issued by iniciar_pago
    primer_plano,      \* position of the foreground flow
    hilos,             \* the _bucle_monitoreo threads
    notificaciones,    \* per order, the calls of notificar_usuario so far
    fallos,            \* exceptions raised by the callback so far
    desde_primera,     \* per tracked order, seconds since its first query
    ultimo_retorno,    \* per tracked order, the state its last query returned
    consultas,         \* the consultar_estado_pedido calls of the last step
    esperando_confirmacion,  \* PideBot.esperando_confirmacion
    producto_pendiente,      \* PideBot.producto_pendiente
    total_pendiente,         \* PideBot.total_pendiente
    carrito,                 \* CarritoCompras.items
    respuesta,         \* what the foreground request of the last step returned
    furniture_items,   \* generate_room_layout: the list given to the running call
    room_dimensions,   \* generate_room_layout: the room of the running call
    sorted_furniture,  \* the items the for loop of line 229 has yet to place
    used_positions,    \* the footprints placed so far
    positioned_items,  \* the items placed so far, with their positions
    layout,            \* the layout returned by the last completed call
    layout_anterior    \* what the call before returned, if it had the same arguments

vars_entrega == << pedidos_estado, pedidos_activos, monitoreo_activo, emitidos,
                   primer_plano, hilos, notificaciones, fallos, desde_primera,
                   ultimo_retorno, consultas >>

vars_dialogo == << esperando_confirmacion, producto_pendiente,
                   total_pendiente, carrito >>

vars_disenio == << furniture_items, room_dimensions, sorted_furniture,
                   used_positions, positioned_items, layout, layout_anterior >>

vars == << vars_entrega, vars_dialogo, respuesta, vars_disenio >>

\* ------------------------------------------------------------ the tracker

Min(a, b) == IF a < b THEN a ELSE b

SeqToSet(s) == { s[i] : i \in 1..Len(s) }

\* mutants of the tracker
DebeAvanzar_Mutante(tiempo_transcurrido) == tiempo_transcurrido >= UMBRAL

SiguienteIndice_Mutante(indice_actual) ==
    IF indice_actual < 3 THEN indice_actual + 2 ELSE indice_actual + 1

TranscurridoTrasAvance_Mutante(anterior) == anterior

\* line 262: the advancement test
DebeAvanzar(tiempo_transcurrido) == tiempo_transcurrido > UMBRAL

HaySiguiente_Mutante(indice_actual) == indice_actual < Len(progresion_estados) - 2

\* line 264: there is a next state in the progression
HaySiguiente(indice_actual) == indice_actual < Len(progresion_estados) - 1

\* line 265: the next index (0-based, as in the code)
SiguienteIndice(indice_actual) == indice_actual + 1

\* line 267: timestamp_ultimo_cambio = datetime.now(), so nothing has elapsed
\* since the change; `anterior` is the time elapsed since the change before
TranscurridoTrasAvance(anterior) == 0

EntradaInicial_Mutante ==
    [ estado |-> CONFIRMANDO,
      desde_ultimo_cambio |-> UMBRAL + 1,
      indice_progresion |-> 0 ]

\* lines 248-254: the entry of an identifier, created on its first query with
\* timestamp_ultimo_cambio = datetime.now()
EntradaInicial ==
    [ estado |-> CONFIRMANDO,
      desde_ultimo_cambio |-> 0,
      indice_progresion |-> 0 ]

EntradaDe(pe, id) == IF id \in DOMAIN pe THEN pe[id] ELSE EntradaInicial

\* lines 256-267: the entry after a query
EntradaTrasConsulta(pe, id) ==
    LET info == EntradaDe(pe, id)
        tiempo_transcurrido == info.desde_ultimo_cambio
    IN  IF DebeAvanzar(tiempo_transcurrido) /\ HaySiguiente(info.indice_progresion)
        THEN [ estado |-> progresion_estados[SiguienteIndice(info.indice_progresion) + 1],
               desde_ultimo_cambio |-> TranscurridoTrasAvance(tiempo_transcurrido),
               indice_progresion |-> SiguienteIndice(info.indice_progresion) ]
        ELSE info

\* lines 246-273: pedidos_estado after querying every id of the set ids
consultar_estado_pedido(pe, ids) ==
    [ x \in DOMAIN pe \cup ids |->
        IF x \in ids THEN EntradaTrasConsulta(pe, x) ELSE pe[x] ]

\* what one call saw and returned (lines 269-273 return the stored state)
RegistroConsulta(pe, ur, id) ==
    LET antes   == EntradaDe(pe, id)
        despues == EntradaTrasConsulta(pe, id)
    IN  [ id           |-> id,
          nuevo        |-> id \notin DOMAIN pe,
          previo       |-> IF id \in DOMAIN ur THEN ur[id] ELSE "NINGUNO",
          antes        |-> antes,
          transcurrido |-> antes.desde_ultimo_cambio,
          despues      |-> despues,
          retorno      |-> despues.estado ]

\* the states returned by the queries of the set ids, given pedidos_estado
\* after them
RetornosTras(ur, pe, ids) ==
    [ x \in DOMAIN ur \cup ids |-> IF x \in ids THEN pe[x].estado ELSE ur[x] ]

\* elapsed times after d seconds; beyond the threshold they stop growing
EdadMax == UMBRAL + Paso

Envejecer(pe, d) ==
    [ x \in DOMAIN pe |->
        [ pe[x] EXCEPT !.desde_ultimo_cambio = Min(@ + d, EdadMax) ] ]

\* ------------------------------------------------------------------ Init

HiloNoCreado ==
    [ pc |-> "no_creado", pos |-> 0, di_used |-> 0,
      pedidos_a_eliminar |-> << >>, resta |-> 0,
      al_inicio |-> {}, sondeados |-> {}, error |-> "ninguno" ]

Init ==
    /\ pedidos_estado = << >>
    /\ pedidos_activos = << >>
    /\ monitoreo_activo = FALSE
    /\ emitidos = 0
    /\ primer_plano = "libre"
    /\ hilos = [ h \in Hilos |-> HiloNoCreado ]
    /\ notificaciones = [ p \in Pedidos |-> << >> ]
    /\ fallos = 0
    /\ desde_primera = << >>
    /\ ultimo_retorno = << >>
    /\ consultas = << >>
    /\ esperando_confirmacion = FALSE
    /\ producto_pendiente = None
    /\ total_pendiente = None
    /\ carrito = << >>
    /\ respuesta = SIN_RESPUESTA
    /\ furniture_items = << >>
    /\ room_dimensions = None
    /\ sorted_furniture = << >>
    /\ used_positions = << >>
    /\ positioned_items = << >>
    /\ layout = None
    /\ layout_anterior = None

\* ------------------------------------------------- the foreground flow

Ids(activos) == { activos[i].pedido_id : i \in 1..Len(activos) }

EsTerminal(estado) == estado \in { ENTREGADO, CANCELADO }

\* lines 455-463: the PedidoActivo built after a successful payment
NuevoPedidoActivo(id, total_pagado) ==
    [ pedido_id |-> id, estado_actual |-> CONFIRMANDO, total_pagado |-> total_pagado ]

\* RestauranteDB.restaurantes (prices in cents), with the total_pedido that
\* CarritoCompras.ver_total computes for a cart holding the product alone:
\* round(precio + 7.00 + precio * 0.15, 2) in binary floating point
Catalogo ==
    << [ producto_id |-> "NORK-14P", precio |-> 2550, total_pedido |-> 3633 ],
       [ producto_id |-> "NORK-12P", precio |-> 3590, total_pedido |-> 4828 ],
       [ producto_id |-> "PARD-14P", precio |-> 2800, total_pedido |-> 3920 ],
       [ producto_id |-> "BEMB-HAM", precio |-> 2290, total_pedido |-> 3334 ],
       [ producto_id |-> "BEMB-CLA", precio |-> 1850, total_pedido |-> 2827 ] >>

Productos == { Catalogo[i] : i \in 1..MaxProductos }

\* lines 296-307: total_pedido of the cart
ver_total(items) == IF items = << >> THEN 700 ELSE items[1].total_pedido

\* A text is the sequence of its characters.  `palabra in texto`: the word
\* occurs somewhere in the text
Contiene(texto, palabra) ==
    \E i \in 1..(Len(texto) - Len(palabra) + 1) :
        SubSeq(texto, i, i + Len(palabra) - 1) = palabra

\* any(palabra in texto for palabra in palabras)
AlgunaEn(palabras, texto) ==
    \E k \in 1..Len(palabras) : Contiene(texto, palabras[k])

\* line 377
PALABRAS_ESTADO ==
    << << "e", "s", "t", "a", "d", "o" >>,
       << "s", "e", "g", "u", "i", "m", "i", "e", "n", "t", "o" >>,
       << "d", "ó", "n", "d", "e", " ", "e", "s", "t", "á" >>,
       << "d", "ó", "n", "d", "e" >>,
       << "p", "e", "d", "i", "d", "o" >> >>

\* line 379
PALABRAS_PEDIDO ==
    << << "q", "u", "i", "e", "r", "o" >>,
       << "p", "i", "d", "e" >>,
       << "p", "e", "d", "i", "d", "o" >>,
       << "o", "r", "d", "e", "n", "a", "r" >> >>

\* line 381
PALABRAS_SI ==
    << << "s", "í" >>,
       << "s", "i" >>,
       << "d", "a", "l", "e" >>,
       << "o", "k" >>,
       << "c", "o", "n", "f", "i", "r", "m", "o" >> >>

\* lines 384 and 442
PALABRAS_NO ==
    << << "n", "o" >>,
       << "c", "a", "n", "c", "e", "l", "a", "r" >>,
       << "c", "a", "n", "c", "e", "l" >> >>

\* line 440
PALABRAS_CONFIRMA ==
    << << "s", "í" >>,
       << "s", "i" >>,
       << "d", "a", "l", "e" >>,
       << "o", "k" >>,
       << "c", "o", "n", "f", "i", "r", "m", "o" >>,
       << "a", "c", "e", "p", "t", "o" >> >>

\* lines 370-387 and 438-445: the handler a request goes to, given its text
\* as lower().strip() leaves it and whether a confirmation is pending.  An
\* affirmative text with no confirmation pending reaches the inner `if` of
\* line 382, which has no else: the method ends without a return statement.
Destino(texto, esperando) ==
    IF esperando
    THEN IF AlgunaEn(PALABRAS_CONFIRMA, texto) THEN "ejecutar_pago"
         ELSE IF AlgunaEn(PALABRAS_NO, texto) THEN "cancelar"
         ELSE "pedir_respuesta"
    ELSE IF AlgunaEn(PALABRAS_ESTADO, texto) THEN "consulta_estado"
         ELSE IF AlgunaEn(PALABRAS_PEDIDO, texto) THEN "nuevo_pedido"
         ELSE IF AlgunaEn(PALABRAS_SI, texto) THEN "sin_return"
         ELSE IF AlgunaEn(PALABRAS_NO, texto) THEN "cancelar"
         ELSE "bienvenida"

\* the requests of the user: some texts, each with what the user means by it
Solicitudes ==
    { [ clase |-> "afirmativa",
        texto |-> << "s", "i" >> ],
      [ clase |-> "negativa",
        texto |-> << "n", "o" >> ],
      [ clase |-> "negativa",
        texto |-> << "n", "o", ",", " ", "e", "s", " ", "d", "e", "m", "a", "s", "i", "a", "d", "o", " ", "c", "a", "r", "o" >> ],
      [ clase |-> "nuevo_pedido",
        texto |-> << "q", "u", "i", "e", "r", "o", " ", "u", "n", "a", " ", "h", "a", "m", "b", "u", "r", "g", "u", "e", "s", "a" >> ],
      [ clase |-> "consulta_estado",
        texto |-> << "e", "s", "t", "a", "d", "o", " ", "d", "e", " ", "m", "i", " ", "p", "e", "d", "i", "d", "o" >> ],
      [ clase |-> "otra",
        texto |-> << "h", "o", "l", "a" >> ] }

DestinosConPendiente == { Destino(s.texto, TRUE) : s \in Solicitudes }

DestinosSinPendiente == { Destino(s.texto, FALSE) : s \in Solicitudes }

\* some request of the user goes to the handler `destino` now
Llega(destino) ==
    IF esperando_confirmacion THEN destino \in DestinosConPendiente
                              ELSE destino \in DestinosSinPendiente

\* lines 389-436, reached from line 380 when no confirmation is pending: the
\* product found is put alone in the cart and the confirmation is awaited
ProcesarNuevoPedido(producto) ==
    /\ primer_plano = "libre"
    /\ Llega("nuevo_pedido")
    /\ emitidos < MaxPedidos
    /\ carrito' = << producto >>
    /\ esperando_confirmacion' = TRUE
    /\ producto_pendiente' = Valor(producto)
    /\ total_pendiente' = Valor(ver_total(carrito'))
    /\ respuesta' = [ tipo |-> "confirmar", total_pedido |-> ver_total(carrito') ]
    /\ consultas' = << >>
    /\ UNCHANGED << pedidos_estado, pedidos_activos, monitoreo_activo,
                    emitidos, primer_plano, hilos, notificaciones, fallos,
                    desde_primera, ultimo_retorno >>
    /\ UNCHANGED vars_disenio

LimpiarEstadoConfirmacion_Mutante ==
    /\ esperando_confirmacion' = FALSE
    /\ UNCHANGED << producto_pendiente, total_pendiente, carrito >>

\* lines 575-580
LimpiarEstadoConfirmacion ==
    /\ esperando_confirmacion' = FALSE
    /\ producto_pendiente' = None
    /\ total_pendiente' = None
    /\ carrito' = << >>

\* lines 568-573, reached from line 443 while a confirmation is pending
CancelarOperacionActual ==
    /\ primer_plano = "libre"
    /\ Llega("cancelar")
    /\ esperando_confirmacion
    /\ LimpiarEstadoConfirmacion
    /\ respuesta' = Respuesta("cancelado")
    /\ consultas' = << >>
    /\ UNCHANGED << pedidos_estado, pedidos_activos, monitoreo_activo,
                    emitidos, primer_plano, hilos, notificaciones, fallos,
                    desde_primera, ultimo_retorno >>
    /\ UNCHANGED vars_disenio

\* lines 447-465 and 486-491, reached from line 441 while a confirmation is
\* pending: iniciar_pago succeeds (a fresh id, line 212) or fails (lines
\* 220-230); on success the order is stored and line 468 comes next, on
\* failure the pending confirmation is cleared and the error is returned.
EjecutarPago ==
    /\ primer_plano = "libre"
    /\ Llega("ejecutar_pago")
    /\ emitidos < MaxPedidos
    /\ \E exito \in BOOLEAN :
         IF exito
         THEN /\ emitidos' = emitidos + 1
              /\ pedidos_activos' =
                     Append(pedidos_activos,
                            NuevoPedidoActivo(emitidos + 1, total_pendiente))
              /\ primer_plano' = "iniciar"
              /\ respuesta' = SIN_RESPUESTA
              /\ UNCHANGED vars_dialogo
         ELSE /\ LimpiarEstadoConfirmacion
              /\ respuesta' = Respuesta("error_pago")
              /\ UNCHANGED << emitidos, pedidos_activos, primer_plano >>
    /\ consultas' = << >>
    /\ UNCHANGED << pedidos_estado, monitoreo_activo, hilos,
                    notificaciones, fallos, desde_primera, ultimo_retorno >>
    /\ UNCHANGED vars_disenio

DebeIniciar_Mutante(activo) == TRUE

\* line 599: the guard of _iniciar_monitoreo_proactivo
DebeIniciar(activo) == ~activo

HilosCreados == { h \in Hilos : hilos[h].pc # "no_creado" }

\* lines 597-603, called from line 468, and lines 471-484, the rest of
\* _ejecutar_pago: the pending confirmation is cleared
IniciarMonitoreoProactivo ==
    /\ primer_plano = "iniciar"
    /\ IF DebeIniciar(monitoreo_activo)
       THEN /\ monitoreo_activo' = TRUE
            /\ hilos' = [ hilos EXCEPT ![Cardinality(HilosCreados) + 1].pc = "while" ]
       ELSE UNCHANGED << monitoreo_activo, hilos >>
    /\ LimpiarEstadoConfirmacion
    /\ respuesta' = Respuesta("pago_exitoso")
    /\ primer_plano' = "libre"
    /\ consultas' = << >>
    /\ UNCHANGED << pedidos_estado, pedidos_activos, emitidos,
                    notificaciones, fallos, desde_primera, ultimo_retorno >>
    /\ UNCHANGED vars_disenio

ProcesarConsultaEstado_Mutante ==
    /\ primer_plano = "libre"
    /\ ~esperando_confirmacion
    /\ pedidos_activos # << >>
    /\ pedidos_estado' =
           consultar_estado_pedido(pedidos_estado, Ids(pedidos_activos))
    /\ ultimo_retorno' =
           RetornosTras(ultimo_retorno, pedidos_estado', Ids(pedidos_activos))
    /\ consultas' = [ i \in 1..Len(pedidos_activos) |->
           RegistroConsulta(pedidos_estado, ultimo_retorno,
                            pedidos_activos[i].pedido_id) ]
    /\ respuesta' = Respuesta("estado")
    /\ pedidos_activos' = [ i \in 1..Len(pedidos_activos) |->
           [ pedidos_activos[i] EXCEPT !.estado_actual =
               pedidos_estado'[pedidos_activos[i].pedido_id].estado ] ]
    /\ UNCHANGED << monitoreo_activo, emitidos, primer_plano,
                    hilos, notificaciones, fallos, desde_primera >>
    /\ UNCHANGED << vars_dialogo, vars_disenio >>

\* lines 551-566, reached from line 378 when no confirmation is pending: a
\* status request queries the tracker for every active order
ProcesarConsultaEstado ==
    /\ primer_plano = "libre"
    /\ Llega("consulta_estado")
    /\ pedidos_activos # << >>
    /\ pedidos_estado' =
           consultar_estado_pedido(pedidos_estado, Ids(pedidos_activos))
    /\ ultimo_retorno' =
           RetornosTras(ultimo_retorno, pedidos_estado', Ids(pedidos_activos))
    /\ consultas' = [ i \in 1..Len(pedidos_activos) |->
           RegistroConsulta(pedidos_estado, ultimo_retorno,
                            pedidos_activos[i].pedido_id) ]
    /\ respuesta' = Respuesta("estado")
    /\ UNCHANGED << pedidos_activos, monitoreo_activo, emitidos, primer_plano,
                    hilos, notificaciones, fallos, desde_primera >>
    /\ UNCHANGED << vars_dialogo, vars_disenio >>

\* a request that changes nothing and returns a text of the kind `tipo`
SoloResponder(destino, tipo) ==
    /\ primer_plano = "libre"
    /\ Llega(destino)
    /\ respuesta' = Respuesta(tipo)
    /\ consultas' = << >>
    /\ UNCHANGED << pedidos_estado, pedidos_activos, monitoreo_activo,
                    emitidos, primer_plano, hilos, notificaciones, fallos,
                    desde_primera, ultimo_retorno >>
    /\ UNCHANGED << vars_dialogo, vars_disenio >>

\* lines 396-408: no product is identified in the text, or none is found
NuevoPedidoSinProducto ==
    /\ ~esperando_confirmacion
    /\ SoloResponder("nuevo_pedido", "sin_producto")

\* lines 553-554: a status request with no active order
ConsultaSinPedidos ==
    /\ pedidos_activos = << >>
    /\ SoloResponder("consulta_estado", "sin_pedidos")

\* line 573: a cancellation with no confirmation pending
CancelarSinPendiente ==
    /\ ~esperando_confirmacion
    /\ SoloResponder("cancelar", "sin_operaciones")

\* line 445: neither yes nor no to the cost prompt
PedirRespuesta ==
    /\ esperando_confirmacion
    /\ SoloResponder("pedir_respuesta", "pedir_respuesta")

\* lines 386-387 and 582-595
RespuestaBienvenida ==
    /\ ~esperando_confirmacion
    /\ SoloResponder("bienvenida", "bienvenida")

\* lines 381-383 with no confirmation pending: the call returns None
AfirmativaSinPendiente ==
    /\ ~esperando_confirmacion
    /\ SoloResponder("sin_return", "None")

\* lines 663-671: a snapshot of the agent, nothing is written
ObtenerEstadoSistema ==
    /\ primer_plano = "libre"
    /\ respuesta' =
           [ tipo |-> "estado_sistema",
             pedidos_activos |-> Len(pedidos_activos),
             monitoreo_activo |-> monitoreo_activo,
             esperando_confirmacion |-> esperando_confirmacion,
             items_en_carrito |-> Len(carrito) ]
    /\ consultas' = << >>
    /\ UNCHANGED << pedidos_estado, pedidos_activos, monitoreo_activo,
                    emitidos, primer_plano, hilos, notificaciones, fallos,
                    desde_primera, ultimo_retorno >>
    /\ UNCHANGED << vars_dialogo, vars_disenio >>

\* The out-of-band cancellation: the stored state of a tracked order that is
\* not terminal is set to CANCELADO from outside consultar_estado_pedido.
InyectarCancelacion(id) ==
    /\ id \in DOMAIN pedidos_estado
    /\ ~EsTerminal(pedidos_estado[id].estado)
    /\ pedidos_estado' = [ pedidos_estado EXCEPT ![id].estado = CANCELADO ]
    /\ consultas' = << >>
    /\ UNCHANGED << pedidos_activos, monitoreo_activo, emitidos,
                    primer_plano, hilos, notificaciones, fallos,
                    desde_primera, ultimo_retorno >>
    /\ respuesta' = SIN_RESPUESTA
    /\ UNCHANGED << vars_dialogo, vars_disenio >>

\* ------------------------------------------------- the monitoring thread

EnPasada(h) == hilos[h].pc \in { "for", "eliminar" }

\* the thread has not yet decided to stop (it is before line 631)
Sondeando(h) == hilos[h].pc \in { "while", "for", "eliminar", "except", "dormido" }

\* line 607 (on start and after each sleep) and lines 609, 611: the loop
\* condition, the fresh pedidos_a_eliminar and the iterator over the dict
BucleWhile(h) ==
    /\ \/ hilos[h].pc = "while"
       \/ hilos[h].pc = "dormido" /\ hilos[h].resta = 0
    /\ IF monitoreo_activo /\ pedidos_activos # << >>
       THEN hilos' = [ hilos EXCEPT ![h] =
                [ pc |-> "for", pos |-> 0, di_used |-> Len(pedidos_activos),
                  pedidos_a_eliminar |-> << >>, resta |-> 0,
                  al_inicio |-> Ids(pedidos_activos), sondeados |-> {},
                  error |-> "ninguno" ] ]
       ELSE hilos' = [ hilos EXCEPT ![h] = [ HiloNoCreado EXCEPT !.pc = "terminado" ] ]
    /\ consultas' = << >>
    /\ UNCHANGED << pedidos_estado, pedidos_activos, monitoreo_activo,
                    emitidos, primer_plano, notificaciones, fallos,
                    desde_primera, ultimo_retorno >>
    /\ respuesta' = SIN_RESPUESTA
    /\ UNCHANGED << vars_dialogo, vars_disenio >>

TrasExcepcion_Mutante(hilo, causa) ==
    [ hilo EXCEPT !.pc = "terminado", !.error = causa ]

\* line 638: an exception raised in the pass is caught by the handler
TrasExcepcion(hilo, causa) == [ hilo EXCEPT !.pc = "except", !.error = causa ]

\* time.sleep(segundos).  The locals of the pass are dead while the thread
\* sleeps (lines 609 and 611 make them afresh), so they are cleared.
Dormir(segundos) == [ HiloNoCreado EXCEPT !.pc = "dormido", !.resta = segundos ]

Marcar_Mutante(a_eliminar, id, nuevo_estado) == Append(a_eliminar, id)

\* lines 620-622: the list of finished orders after looking at one order
Marcar(a_eliminar, id, nuevo_estado) ==
    IF EsTerminal(nuevo_estado) THEN Append(a_eliminar, id) ELSE a_eliminar

HayCambio_Mutante(nuevo_estado, estado_actual) == TRUE

\* line 616: the state changed
HayCambio(nuevo_estado, estado_actual) == nuevo_estado # estado_actual

\* lines 611-622: one turn of the for loop.  The dict iterator raises
\* RuntimeError when the dict changed size since the iterator was made; the
\* callback of line 653 may raise, which leaves line 618 undone.
BucleFor(h) ==
    /\ hilos[h].pc = "for"
    /\ IF hilos[h].di_used # Len(pedidos_activos)
       THEN /\ hilos' = [ hilos EXCEPT ![h] = TrasExcepcion(@, "runtime") ]
            /\ consultas' = << >>
            /\ UNCHANGED << pedidos_estado, pedidos_activos, notificaciones,
                            fallos, ultimo_retorno >>
       ELSE IF hilos[h].pos >= Len(pedidos_activos)
       THEN /\ hilos' = [ hilos EXCEPT ![h].pc = "eliminar" ]
            /\ consultas' = << >>
            /\ UNCHANGED << pedidos_estado, pedidos_activos, notificaciones,
                            fallos, ultimo_retorno >>
       ELSE LET i == hilos[h].pos + 1
                pedido == pedidos_activos[i]
                id == pedido.pedido_id
                pe == consultar_estado_pedido(pedidos_estado, {id})
                nuevo_estado == pe[id].estado
                visto == [ hilos[h] EXCEPT !.pos = i, !.sondeados = @ \cup {id} ]
            IN  /\ pedidos_estado' = pe
                /\ ultimo_retorno' = RetornosTras(ultimo_retorno, pe, {id})
                /\ consultas' = << RegistroConsulta(pedidos_estado, ultimo_retorno, id) >>
                /\ IF HayCambio(nuevo_estado, pedido.estado_actual)
                   THEN \E ok \in BOOLEAN :
                          /\ ok \/ fallos < MaxFallos
                          /\ notificaciones' = [ notificaciones EXCEPT ![id] =
                                 Append(@, [ estado |-> nuevo_estado, ok |-> ok ]) ]
                          /\ IF ok
                             THEN /\ pedidos_activos' = [ pedidos_activos EXCEPT
                                         ![i].estado_actual = nuevo_estado ]
                                  /\ hilos' = [ hilos EXCEPT ![h] =
                                         [ visto EXCEPT !.pedidos_a_eliminar =
                                             Marcar(@, id, nuevo_estado) ] ]
                                  /\ fallos' = fallos
                             ELSE /\ hilos' = [ hilos EXCEPT ![h] =
                                         TrasExcepcion(visto, "callback") ]
                                  /\ fallos' = fallos + 1
                                  /\ pedidos_activos' = pedidos_activos
                   ELSE /\ hilos' = [ hilos EXCEPT ![h] =
                               [ visto EXCEPT !.pedidos_a_eliminar =
                                   Marcar(@, id, nuevo_estado) ] ]
                        /\ UNCHANGED << pedidos_activos, notificaciones, fallos >>
    /\ UNCHANGED << monitoreo_activo, emitidos, primer_plano, desde_primera >>
    /\ respuesta' = SIN_RESPUESTA
    /\ UNCHANGED << vars_dialogo, vars_disenio >>

SinPedido(activos, id) == SelectSeq(activos, LAMBDA p : p.pedido_id # id)

\* lines 625-627: one deletion (the id is always present: only this loop
\* deletes, and it marks an id at most once in a pass)
BucleEliminar(h) ==
    /\ hilos[h].pc = "eliminar"
    /\ hilos[h].pedidos_a_eliminar # << >>
    /\ pedidos_activos' =
           SinPedido(pedidos_activos, Head(hilos[h].pedidos_a_eliminar))
    /\ hilos' = [ hilos EXCEPT ![h].pedidos_a_eliminar = Tail(@) ]
    /\ consultas' = << >>
    /\ UNCHANGED << pedidos_estado, monitoreo_activo, emitidos,
                    primer_plano, notificaciones, fallos, desde_primera, ultimo_retorno >>
    /\ respuesta' = SIN_RESPUESTA
    /\ UNCHANGED << vars_dialogo, vars_disenio >>

\* lines 630 and 636: the test for an empty dict, and the sleep otherwise
BucleVerificar(h) ==
    /\ hilos[h].pc = "eliminar"
    /\ hilos[h].pedidos_a_eliminar = << >>
    /\ IF pedidos_activos = << >>
       THEN hilos' = [ hilos EXCEPT ![h] = [ HiloNoCreado EXCEPT !.pc = "detener" ] ]
       ELSE hilos' = [ hilos EXCEPT ![h] = Dormir(INTERVALO) ]
    /\ consultas' = << >>
    /\ UNCHANGED << pedidos_estado, pedidos_activos, monitoreo_activo,
                    emitidos, primer_plano, notificaciones, fallos,
                    desde_primera, ultimo_retorno >>
    /\ respuesta' = SIN_RESPUESTA
    /\ UNCHANGED << vars_dialogo, vars_disenio >>

\* lines 639-640: the except handler prints and sleeps
BucleExcept(h) ==
    /\ hilos[h].pc = "except"
    /\ hilos' = [ hilos EXCEPT ![h] = Dormir(ESPERA_ERROR) ]
    /\ consultas' = << >>
    /\ UNCHANGED << pedidos_estado, pedidos_activos, monitoreo_activo,
                    emitidos, primer_plano, notificaciones, fallos,
                    desde_primera, ultimo_retorno >>
    /\ respuesta' = SIN_RESPUESTA
    /\ UNCHANGED << vars_dialogo, vars_disenio >>

\* line 631
BucleDetener(h) ==
    /\ hilos[h].pc = "detener"
    /\ monitoreo_activo' = FALSE
    /\ hilos' = [ hilos EXCEPT ![h].pc = "saliendo" ]
    /\ consultas' = << >>
    /\ UNCHANGED << pedidos_estado, pedidos_activos, emitidos,
                    primer_plano, notificaciones, fallos, desde_primera, ultimo_retorno >>
    /\ respuesta' = SIN_RESPUESTA
    /\ UNCHANGED << vars_dialogo, vars_disenio >>

\* lines 632-633: the print, the break, and the return of the thread's target
BucleSalir(h) ==
    /\ hilos[h].pc = "saliendo"
    /\ hilos' = [ hilos EXCEPT ![h].pc = "terminado" ]
    /\ consultas' = << >>
    /\ UNCHANGED << pedidos_estado, pedidos_activos, monitoreo_activo,
                    emitidos, primer_plano, notificaciones, fallos,
                    desde_primera, ultimo_retorno >>
    /\ respuesta' = SIN_RESPUESTA
    /\ UNCHANGED << vars_dialogo, vars_disenio >>

\* --------------------------------------------------------------- the clock

Dormidos == { h \in Hilos : hilos[h].pc = "dormido" }

RECURSIVE MinResta(_, _)
MinResta(S, d) ==
    IF S = {} THEN d
    ELSE LET h == CHOOSE x \in S : TRUE
         IN  MinResta(S \ {h}, Min(d, hilos[h].resta))

\* the clock advances to the next wake-up, by Paso seconds at most
Tick ==
    /\ primer_plano = "libre"
    /\ \A h \in Hilos : hilos[h].pc \in { "no_creado", "dormido", "terminado" }
    /\ \A h \in Dormidos : hilos[h].resta > 0
    /\ LET d == MinResta(Dormidos, Paso)
       IN  /\ pedidos_estado' = Envejecer(pedidos_estado, d)
           /\ hilos' = [ h \in Hilos |->
                  IF h \in Dormidos
                  THEN [ hilos[h] EXCEPT !.resta = @ - d ]
                  ELSE hilos[h] ]
    /\ consultas' = << >>
    /\ UNCHANGED << pedidos_activos, monitoreo_activo, emitidos, primer_plano,
                    notificaciones, fallos, desde_primera, ultimo_retorno >>
    /\ respuesta' = SIN_RESPUESTA
    /\ UNCHANGED << vars_dialogo, vars_disenio >>

Next ==
    \/ \E producto \in Productos : ProcesarNuevoPedido(producto)
    \/ CancelarOperacionActual
    \/ EjecutarPago
    \/ IniciarMonitoreoProactivo
    \/ ProcesarConsultaEstado
    \/ ObtenerEstadoSistema
    \/ \E id \in Pedidos : InyectarCancelacion(id)
    \/ \E h \in Hilos : BucleWhile(h)
    \/ \E h \in Hilos : BucleFor(h)
    \/ \E h \in Hilos : BucleEliminar(h)
    \/ \E h \in Hilos : BucleVerificar(h)
    \/ \E h \in Hilos : BucleExcept(h)
    \/ \E h \in Hilos : BucleDetener(h)
    \/ \E h \in Hilos : BucleSalir(h)
    \/ Tick

Spec == Init /\ [][Next]_vars

\* The same agent under fair scheduling: a started thread that can take a
\* step takes it, the call of line 468 returns, and time passes.  Nothing is
\* required of the user or of the out-of-band cancellation.
PasoDeHilo(h) ==
    \/ BucleWhile(h)
    \/ BucleFor(h)
    \/ BucleEliminar(h)
    \/ BucleVerificar(h)
    \/ BucleExcept(h)
    \/ BucleDetener(h)
    \/ BucleSalir(h)

Justicia ==
    /\ \A h \in Hilos : WF_vars(PasoDeHilo(h))
    /\ WF_vars(IniciarMonitoreoProactivo)
    /\ WF_vars(Tick)

SpecJusto == Init /\ [][Next]_vars /\ Justicia

\* ------------------------------------------------------ the tracker alone

\* lines 246-273: one direct call, for a tracked or an unseen identifier
ConsultarDirecto(id) ==
    /\ pedidos_estado' = consultar_estado_pedido(pedidos_estado, {id})
    /\ ultimo_retorno' = RetornosTras(ultimo_retorno, pedidos_estado', {id})
    /\ desde_primera' = [ x \in DOMAIN desde_primera \cup {id} |->
                             IF x \in DOMAIN desde_primera
                             THEN desde_primera[x] ELSE 0 ]
    /\ consultas' = << RegistroConsulta(pedidos_estado, ultimo_retorno, id) >>
    /\ UNCHANGED << pedidos_activos, monitoreo_activo, emitidos, primer_plano,
                    hilos, notificaciones, fallos >>
    /\ respuesta' = SIN_RESPUESTA
    /\ UNCHANGED << vars_dialogo, vars_disenio >>

\* Paso seconds pass, until an order has been followed for MaxTiempo
TickRastreador ==
    /\ \A x \in DOMAIN desde_primera : desde_primera[x] < MaxTiempo
    /\ pedidos_estado' = Envejecer(pedidos_estado, Paso)
    /\ desde_primera' = [ x \in DOMAIN desde_primera |-> desde_primera[x] + Paso ]
    /\ consultas' = << >>
    /\ UNCHANGED << pedidos_activos, monitoreo_activo, emitidos, primer_plano,
                    hilos, notificaciones, fallos, ultimo_retorno >>
    /\ respuesta' = SIN_RESPUESTA
    /\ UNCHANGED << vars_dialogo, vars_disenio >>

Rastreados == 1..MaxRastreados

NextRastreador ==
    \/ \E id \in Rastreados : ConsultarDirecto(id)
    \/ \E id \in Rastreados : InyectarCancelacion(id)
    \/ TickRastreador

SpecRastreador == Init /\ [][NextRastreador]_vars

\* the agent with every request of procesar_solicitud, those that change
\* nothing and only return a text included
NextCompleto ==
    \/ Next
    \/ NuevoPedidoSinProducto
    \/ CancelarSinPendiente
    \/ PedirRespuesta
    \/ ConsultaSinPedidos
    \/ RespuestaBienvenida
    \/ AfirmativaSinPendiente

SpecCompleto == Init /\ [][NextCompleto]_vars

TypeOK ==
    /\ monitoreo_activo \in BOOLEAN
    /\ emitidos \in 0..MaxPedidos
    /\ primer_plano \in { "libre", "iniciar" }
    /\ fallos \in 0..MaxFallos
    /\ Ids(pedidos_activos) \subseteq 1..emitidos
    /\ esperando_confirmacion \in BOOLEAN
    /\ esperando_confirmacion <=> producto_pendiente # None
    /\ esperando_confirmacion <=> total_pendiente # None
    /\ Len(carrito) <= 1
    /\ Len(positioned_items) = Len(used_positions)

\* ------------------------------------------------- the room layout placer
\* DesignVisualizer of src/agents/room_design_agent.py.  Lengths are in
\* centimetres and kept exact; the program computes with them in metres as
\* binary floating-point numbers.

\* line 264: grid_size = 0.5
GRID_SIZE == 50

\* lines 266-267: the scan begins 0.2 from the wall and stops 0.2 before it
BORDE == 20

\* line 282: margin = 0.3
MARGEN == 30

\* FurnitureCatalog._initialize_catalog: some of the footprints
CatalogoMuebles ==
    << [ id |-> "bed_modern_1",          width |-> 200, length |-> 220 ],
       [ id |-> "bed_classic_1",         width |-> 200, length |-> 220 ],
       [ id |-> "wardrobe_modern_1",     width |-> 250, length |-> 60 ],
       [ id |-> "dining_chair_modern_1", width |-> 50,  length |-> 50 ],
       [ id |-> "nightstand_modern_1",   width |-> 50,  length |-> 30 ] >>

Muebles == SeqToSet(CatalogoMuebles)

\* the lists of furniture given to a call, copies of an item included
ListasDeMuebles == UNION { [ 1..n -> Muebles ] : n \in 0..MaxMuebles }

\* the sides of the rooms given to a call
Lados == { 0 - 100, 0, 240, 300, 400 }

Habitaciones == [ width : Lados, length : Lados ]

\* line 226: the sort key
Area(item) == item.width * item.length

\* an item put in a list sorted by area, largest first, behind the items of
\* the same area
Insertar(ordenados, item) ==
    LET delante == { k \in 1..Len(ordenados) : Area(ordenados[k]) >= Area(item) }
        n == Cardinality(delante)
    IN  SubSeq(ordenados, 1, n) \o << item >> \o SubSeq(ordenados, n + 1, Len(ordenados))

\* lines 225-227: sorted(..., reverse=True), which is stable
RECURSIVE Ordenar(_)
Ordenar(items) ==
    IF items = << >> THEN << >>
    ELSE Insertar(Ordenar(SubSeq(items, 1, Len(items) - 1)), items[Len(items)])

\* lines 273-277: start, start + step, ... while below stop
frange(start, stop, step) ==
    LET n == IF stop <= start THEN 0 ELSE ((stop - start - 1) \div step) + 1
    IN  [ k \in 1..n |-> start + (k - 1) * step ]

Hasta_Mutante(lado_habitacion, lado_mueble) == lado_habitacion - BORDE

\* lines 266-267: where the scan along one side stops
Hasta(lado_habitacion, lado_mueble) == lado_habitacion - lado_mueble - BORDE

ConMargen_Mutante(desde, lado) == desde + lado

\* lines 285-288: the far edge of a footprint, with the margin
ConMargen(desde, lado) == desde + lado + MARGEN

position_conflicts_Mutante(x, y, width, length, used_pos) ==
    /\ used_pos # << >>
    /\ LET used == used_pos[Len(used_pos)]
       IN  /\ x < ConMargen(used.x, used.width)
           /\ ConMargen(x, width) > used.x
           /\ y < ConMargen(used.y, used.length)
           /\ ConMargen(y, length) > used.y

\* lines 279-290
position_conflicts(x, y, width, length, used_pos) ==
    \E k \in 1..Len(used_pos) :
        LET used == used_pos[k]
        IN  /\ x < ConMargen(used.x, used.width)
            /\ ConMargen(x, width) > used.x
            /\ y < ConMargen(used.y, used.length)
            /\ ConMargen(y, length) > used.y

find_optimal_position_Mutante(furniture, room, used_pos) ==
    LET xs == frange(BORDE, Hasta(room.width, furniture.width), GRID_SIZE)
        ys == frange(BORDE, Hasta(room.length, furniture.length), GRID_SIZE)
        libres == { q \in (1..Len(xs)) \X (1..Len(ys)) :
                      ~position_conflicts(xs[q[1]], ys[q[2]], furniture.width,
                                          furniture.length, used_pos) }
    IN  IF libres = {} THEN None
        ELSE LET q == CHOOSE a \in libres : \A b \in libres :
                          a[2] < b[2] \/ (a[2] = b[2] /\ a[1] <= b[1])
             IN  Valor([ x |-> xs[q[1]], y |-> ys[q[2]] ])

\* lines 255-271: the first position of the scan, x in the outer loop and y
\* in the inner one, that is free of conflicts; None when there is none
find_optimal_position(furniture, room, used_pos) ==
    LET xs == frange(BORDE, Hasta(room.width, furniture.width), GRID_SIZE)
        ys == frange(BORDE, Hasta(room.length, furniture.length), GRID_SIZE)
        libres == { q \in (1..Len(xs)) \X (1..Len(ys)) :
                      ~position_conflicts(xs[q[1]], ys[q[2]], furniture.width,
                                          furniture.length, used_pos) }
    IN  IF libres = {} THEN None
        ELSE LET q == CHOOSE a \in libres : \A b \in libres :
                          a[1] < b[1] \/ (a[1] = b[1] /\ a[2] <= b[2])
             IN  Valor([ x |-> xs[q[1]], y |-> ys[q[2]] ])

calculate_used_area_Mutante(positioned) ==
    IF positioned = << >> THEN 0
    ELSE (Head(positioned).width + MARGEN) * (Head(positioned).length + MARGEN)
             * Len(positioned)

\* lines 301-307
RECURSIVE calculate_used_area(_)
calculate_used_area(positioned) ==
    IF positioned = << >> THEN 0
    ELSE Area(Head(positioned)) + calculate_used_area(Tail(positioned))

calculate_efficiency_Mutante(used_area, room) ==
    [ num |-> used_area * 100, den |-> room.width * room.length ]

\* lines 309-313: used_area / room_area * 100, kept as a fraction
calculate_efficiency(used_area, room) ==
    LET room_area == room.width * room.length
    IN  IF room_area > 0
        THEN [ num |-> used_area * 100, den |-> room_area ]
        ELSE [ num |-> 0, den |-> 1 ]

\* a call of generate_room_layout is between line 229 and line 253
EnCurso == room_dimensions # None /\ layout = None

used_positions_inicial_Mutante(previas) == previas

\* line 222: used_positions = [], whatever an earlier call left
used_positions_inicial(previas) == << >>

\* lines 209-227: the first call on a DesignVisualizer begins
GenerateRoomLayout(items, room) ==
    /\ room_dimensions = None
    /\ furniture_items' = items
    /\ room_dimensions' = Valor(room)
    /\ sorted_furniture' = Ordenar(items)
    /\ used_positions' = used_positions_inicial(used_positions)
    /\ positioned_items' = << >>
    /\ layout' = None
    /\ layout_anterior' = None
    /\ UNCHANGED << vars_entrega, vars_dialogo, respuesta >>

\* lines 209-227: a later call on the same DesignVisualizer begins, with the
\* list of the call before and any room
OtraLlamada(room) ==
    /\ layout # None
    /\ furniture_items' = furniture_items
    /\ room_dimensions' = Valor(room)
    /\ sorted_furniture' = Ordenar(furniture_items)
    /\ used_positions' = used_positions_inicial(used_positions)
    /\ positioned_items' = << >>
    /\ layout' = None
    /\ layout_anterior' = IF Valor(room) = room_dimensions THEN layout ELSE None
    /\ UNCHANGED << vars_entrega, vars_dialogo, respuesta >>

\* lines 229-247: one turn of the for loop
Colocar ==
    /\ EnCurso
    /\ sorted_furniture # << >>
    /\ LET item == Head(sorted_furniture)
           position == find_optimal_position(item, room_dimensions[1], used_positions)
       IN  IF position # None
           THEN /\ positioned_items' = Append(positioned_items,
                       [ id |-> item.id, x |-> position[1].x, y |-> position[1].y,
                         width |-> item.width, length |-> item.length ])
                /\ used_positions' = Append(used_positions,
                       [ x |-> position[1].x, y |-> position[1].y,
                         width |-> item.width, length |-> item.length ])
           ELSE UNCHANGED << positioned_items, used_positions >>
    /\ sorted_furniture' = Tail(sorted_furniture)
    /\ UNCHANGED << furniture_items, room_dimensions, layout, layout_anterior >>
    /\ UNCHANGED << vars_entrega, vars_dialogo, respuesta >>

\* lines 249-253: the layout is completed and returned
Terminar ==
    /\ EnCurso
    /\ sorted_furniture = << >>
    /\ layout' = Valor(
           [ room |-> room_dimensions[1],
             furniture |-> positioned_items,
             total_area_used |-> calculate_used_area(positioned_items),
             area_efficiency |->
                 calculate_efficiency(calculate_used_area(positioned_items),
                                      room_dimensions[1]) ])
    /\ UNCHANGED << furniture_items, room_dimensions, sorted_furniture,
                    used_positions, positioned_items, layout_anterior >>
    /\ UNCHANGED << vars_entrega, vars_dialogo, respuesta >>

NextDisenio ==
    \/ \E items \in ListasDeMuebles, room \in Habitaciones :
           GenerateRoomLayout(items, room)
    \/ \E room \in Habitaciones : OtraLlamada(room)
    \/ Colocar
    \/ Terminar

SpecDisenio == Init /\ [][NextDisenio]_vars

\* ================================================================ claims

Terminales == { ENTREGADO, CANCELADO }

ConsultasHechas == { consultas[i] : i \in 1..Len(consultas) }

\* the place of a state in the chain CONFIRMANDO .. ENTREGADO (1..5)
Posicion(estado) ==
    CHOOSE k \in 1..Len(progresion_estados) : progresion_estados[k] = estado

\* C1: once the stored state of an order is ENTREGADO or CANCELADO, a call of
\* consultar_estado_pedido for it returns that state and leaves it stored.
C1_TerminalNoCambia ==
    \A c \in ConsultasHechas :
        c.antes.estado \in Terminales /\ ~c.nuevo =>
            /\ c.retorno = c.antes.estado
            /\ c.despues.estado = c.antes.estado

\* C2: a call on an order whose state is in the chain leaves the state or
\* moves it to the immediate successor, never backward and never two steps;
\* a call made after the threshold moves it by exactly one step, while there
\* is a successor.  The call returns the state it leaves stored.
C2_UnPasoPorLlamada ==
    \A c \in ConsultasHechas :
        c.antes.estado # CANCELADO =>
            LET i == Posicion(c.antes.estado)
            IN  /\ c.despues.estado \in SeqToSet(progresion_estados)
                /\ Posicion(c.despues.estado) \in { i, i + 1 }
                /\ (c.transcurrido > UMBRAL /\ i < Len(progresion_estados)
                        => Posicion(c.despues.estado) = i + 1)
                /\ (c.transcurrido <= UMBRAL
                        => Posicion(c.despues.estado) = i)
                /\ c.retorno = c.despues.estado

\* C2 witness: a call after the threshold took an order from EN_CAMINO to
\* ENTREGADO, the last step of the chain.
C2_Testigo ==
    \E c \in ConsultasHechas :
        /\ c.transcurrido > UMBRAL
        /\ c.antes.estado = EN_CAMINO
        /\ c.retorno = ENTREGADO

\* C3: a call made while no more than UMBRAL seconds have passed since the
\* last change of a tracked order leaves the stored state and the time of the
\* last change as they were and returns the stored state, which is the state
\* the previous call returned unless a cancellation came in between.
C3_IdempotenteBajoUmbral ==
    \A c \in ConsultasHechas :
        ~c.nuevo /\ c.transcurrido <= UMBRAL =>
            /\ c.despues = c.antes
            /\ c.retorno = c.antes.estado
            /\ (c.antes.estado # CANCELADO => c.retorno = c.previo)

\* C3 witness: a call exactly UMBRAL seconds after the last change of a
\* tracked order that has already advanced.
C3_Testigo ==
    \E c \in ConsultasHechas :
        /\ ~c.nuevo
        /\ c.transcurrido = UMBRAL
        /\ c.antes.estado = EN_PREPARACION
        /\ c.retorno = EN_PREPARACION

\* the threshold intervals that have elapsed since the first query of an
\* order, an interval counting once more than UMBRAL seconds are behind it
\* (the test of line 262 is strict)
Intervalos(id) ==
    IF desde_primera[id] = 0 THEN 0 ELSE (desde_primera[id] - 1) \div UMBRAL

Vivos == { h \in Hilos : hilos[h].pc \notin { "no_creado", "terminado" } }

Marcados(h) == SeqToSet(hilos[h].pedidos_a_eliminar)

EntregadaTerminal(id) ==
    \E i \in 1..Len(notificaciones[id]) :
        notificaciones[id][i].ok /\ notificaciones[id][i].estado \in Terminales

\* C5: pedidos_activos shrinks only by one order at a time and only by an
\* order the running pass saw in a terminal state; every order a pass saw in
\* a terminal state is gone from pedidos_activos when that pass is over; and
\* the thread goes to its end exactly when it finds pedidos_activos empty
\* after a pass.
C5_BajaPorTerminal ==
    [][ /\ Len(pedidos_activos') < Len(pedidos_activos) =>
            /\ Len(pedidos_activos') = Len(pedidos_activos) - 1
            /\ \E h \in Hilos :
                   /\ hilos[h].pc = "eliminar"
                   /\ Ids(pedidos_activos) \ Ids(pedidos_activos') \subseteq Marcados(h)
        /\ \A h \in Hilos :
               EnPasada(h) /\ ~EnPasada(h)' =>
                   Marcados(h) \cap Ids(pedidos_activos') = {}
        /\ \A h \in Hilos :
               hilos[h].pc = "eliminar" /\ hilos[h].pedidos_a_eliminar = << >>
               /\ hilos'[h] # hilos[h] =>
                   (hilos'[h].pc = "detener" <=> pedidos_activos = << >>)
        /\ \A h \in Hilos :
               hilos[h].pc # "detener" /\ hilos'[h].pc = "detener" =>
                   hilos[h].pc = "eliminar" /\ pedidos_activos = << >>
      ]_vars

\* C6: an order that has left pedidos_activos had the callback invoked for a
\* terminal state of it, and the callback returned, before it was deleted.
C6_NotificadoAntesDeEliminar ==
    \A id \in 1..emitidos :
        id \notin Ids(pedidos_activos) => EntregadaTerminal(id)

\* C6 witness: an order followed to ENTREGADO has been notified and deleted,
\* while another order is still active.
C6_Testigo ==
    \E id \in 1..emitidos :
        /\ id \notin Ids(pedidos_activos)
        /\ pedidos_activos # << >>
        /\ notificaciones[id] # << >>
        /\ notificaciones[id][Len(notificaciones[id])] =
               [ estado |-> ENTREGADO, ok |-> TRUE ]

\* C7: whenever _ejecutar_pago has returned and pedidos_activos is not
\* empty, a monitor thread is running that will poll again.
C7_SiempreRearmado ==
    primer_plano = "libre" /\ pedidos_activos # << >> =>
        \E h \in Hilos : Sondeando(h)

\* C8: while a pass is under way, pedidos_activos holds no order that was
\* not in it when the pass began: no insert falls inside a pass.
C8_SinInsertarEnPasada ==
    \A h \in Hilos :
        EnPasada(h) => Ids(pedidos_activos) \subseteq hilos[h].al_inicio

\* C9 as stated: at most one _bucle_monitoreo thread is alive at any time.
C9_UnHiloVivo == Cardinality(Vivos) <= 1

\* C9 amended: at most one thread is at or before line 631, the point where
\* it clears monitoreo_activo; a thread past it only prints and returns, and
\* may overlap with the thread started for the next order.
C9_UnHiloSondeando ==
    Cardinality({ h \in Hilos : Sondeando(h) \/ hilos[h].pc = "detener" }) <= 1

\* C9 witness: a thread that is leaving while the next one polls.
C9_Testigo ==
    \E h1, h2 \in Hilos :
        /\ hilos[h1].pc = "saliendo"
        /\ hilos[h2].pc = "for"

\* C10: when the callback raises for one order, every order that was active
\* when the pass began has been polled in that pass, and those seen in a
\* terminal state have been deleted.
C10_ExcepcionAislada ==
    \A h \in Hilos :
        hilos[h].pc = "except" /\ hilos[h].error = "callback" =>
            /\ hilos[h].al_inicio \subseteq hilos[h].sondeados
            /\ Marcados(h) \cap Ids(pedidos_activos) = {}

\* the orders of pedidos_activos stay where they are, with their state
SiguenIguales ==
    /\ Len(pedidos_activos') >= Len(pedidos_activos)
    /\ \A i \in 1..Len(pedidos_activos) : pedidos_activos'[i] = pedidos_activos[i]

\* C11: an exception raised while the monitor processes an order does not end
\* the thread: the handler is entered with pedidos_activos as it was, the
\* thread sleeps, and when it wakes it begins a new pass over every order
\* that is active, the affected one included, whose estado_actual has not
\* changed meanwhile.
C11_ExcepcionNoTermina ==
    [][ \A h \in Hilos :
          /\ hilos[h].pc = "for" =>
                 hilos'[h].pc \in { "for", "eliminar", "except" }
          /\ hilos[h].pc = "for" /\ hilos'[h].pc = "except" =>
                 /\ pedidos_activos' = pedidos_activos
                 /\ monitoreo_activo' = monitoreo_activo
          /\ hilos[h].pc = "except" =>
                 /\ hilos'[h].pc \in { "except", "dormido" }
                 /\ SiguenIguales
          /\ hilos[h].pc = "dormido" =>
                 /\ hilos'[h].pc \in { "dormido", "for" }
                 /\ SiguenIguales
                 /\ hilos'[h].pc = "for" =>
                        /\ pedidos_activos # << >>
                        /\ hilos'[h].al_inicio = Ids(pedidos_activos)
      ]_vars

\* C11 witness: the callback raised for an order, which stayed active and
\* was polled and notified of the same state in a later pass.
C11_Testigo ==
    \E id \in Ids(pedidos_activos) :
        /\ Len(notificaciones[id]) >= 2
        /\ ~notificaciones[id][1].ok
        /\ notificaciones[id][2].ok
        /\ notificaciones[id][2].estado = notificaciones[id][1].estado

\* C12: if the callback never raises, every order put in pedidos_activos is
\* eventually notified of a terminal state and removed, and in the end
\* pedidos_activos is empty, monitoreo_activo is False and no monitor thread
\* is left.
C12_TodoPedidoTermina ==
    [](fallos = 0) =>
        /\ \A id \in Pedidos :
               (id \in Ids(pedidos_activos)) ~>
                   (id \notin Ids(pedidos_activos) /\ EntregadaTerminal(id))
        /\ <>[](pedidos_activos = << >> /\ ~monitoreo_activo /\ Vivos = {})

\* estado_actual of an active order
EstadoActual(activos, id) ==
    LET i == CHOOSE k \in 1..Len(activos) : activos[k].pedido_id = id
    IN  activos[i].estado_actual

Ultima(s) == s[Len(s)]

\* C13: in a turn of the for loop the callback is invoked exactly when the
\* polled state differs from estado_actual, once, for the polled state;
\* estado_actual becomes the polled state only when the callback has
\* returned; when the two are equal there is no call and no update.  No
\* other step invokes the callback or changes estado_actual.
C13_NotificaSoloCambios ==
    [][ /\ \A h \in Hilos :
             hilos[h].pc = "for" /\ hilos'[h].pos = hilos[h].pos + 1 =>
                 LET i == hilos[h].pos + 1
                     pedido == pedidos_activos[i]
                     id == pedido.pedido_id
                     nuevo_estado == pedidos_estado'[id].estado
                 IN  IF nuevo_estado # pedido.estado_actual
                     THEN /\ Len(notificaciones'[id]) = Len(notificaciones[id]) + 1
                          /\ SubSeq(notificaciones'[id], 1, Len(notificaciones[id]))
                                 = notificaciones[id]
                          /\ Ultima(notificaciones'[id]).estado = nuevo_estado
                          /\ \A otro \in Pedidos \ {id} :
                                 notificaciones'[otro] = notificaciones[otro]
                          /\ pedidos_activos'[i].estado_actual =
                                 IF Ultima(notificaciones'[id]).ok
                                 THEN nuevo_estado ELSE pedido.estado_actual
                     ELSE /\ notificaciones' = notificaciones
                          /\ pedidos_activos' = pedidos_activos
        /\ notificaciones' # notificaciones =>
               \E h \in Hilos :
                   hilos[h].pc = "for" /\ hilos'[h].pos = hilos[h].pos + 1
        /\ \A id \in Ids(pedidos_activos) \cap Ids(pedidos_activos') :
               EstadoActual(pedidos_activos', id) # EstadoActual(pedidos_activos, id) =>
                   /\ notificaciones'[id] # notificaciones[id]
                   /\ Ultima(notificaciones'[id]) =
                          [ estado |-> EstadoActual(pedidos_activos', id), ok |-> TRUE ]
      ]_vars

\* C13 witness: a turn of the for loop has just polled EN_PREPARACION for an
\* order recorded as CONFIRMANDO, the callback was invoked for
\* EN_PREPARACION and returned, and estado_actual is EN_PREPARACION.
C13_Testigo ==
    \E h \in Hilos :
        /\ hilos[h].pc = "for"
        /\ hilos[h].pos >= 1
        /\ consultas # << >>
        /\ consultas[1].retorno = EN_PREPARACION
        /\ consultas[1].id = pedidos_activos[hilos[h].pos].pedido_id
        /\ notificaciones[consultas[1].id] =
               << [ estado |-> EN_PREPARACION, ok |-> TRUE ] >>
        /\ pedidos_activos[hilos[h].pos].estado_actual = EN_PREPARACION

\* C14: the callback is invoked at most once for each state of the chain
\* CONFIRMANDO .. ENTREGADO of an order, the calls that raised and were
\* retried by a later pass included.
C14_SinDuplicados ==
    \A id \in Pedidos :
        \A i, j \in 1..Len(notificaciones[id]) :
            i < j /\ notificaciones[id][i].estado \in SeqToSet(progresion_estados)
                => notificaciones[id][i].estado # notificaciones[id][j].estado

\* ---------------------------------------------------- the foreground flow

\* C15: a step in which _ejecutar_pago returns the payment error was taken
\* with a confirmation pending and leaves pedidos_activos, the tracker,
\* monitoreo_activo and the threads as they were: no order, no tracker
\* entry, no monitor; and it clears the pending confirmation.
C15_PagoFallidoNoCrea ==
    [][ respuesta'.tipo = "error_pago" =>
            /\ esperando_confirmacion
            /\ pedidos_activos' = pedidos_activos
            /\ emitidos' = emitidos
            /\ pedidos_estado' = pedidos_estado
            /\ monitoreo_activo' = monitoreo_activo
            /\ hilos' = hilos
            /\ primer_plano' = "libre"
            /\ ~esperando_confirmacion'
            /\ producto_pendiente' = None
            /\ total_pendiente' = None
            /\ carrito' = << >>
      ]_vars

\* C15 witness: the payment of a second order has just failed while the
\* first order is active and monitored.
C15_Testigo ==
    /\ respuesta.tipo = "error_pago"
    /\ emitidos = 1
    /\ Len(pedidos_activos) = 1
    /\ monitoreo_activo

\* the step is a status request or a snapshot of the agent
EsConsultaDePrimerPlano == respuesta'.tipo \in { "estado", "estado_sistema" }

\* C16 as stated: a status request (_procesar_consulta_estado) or a snapshot
\* (obtener_estado_sistema) leaves estado_actual of every active order and
\* the state the tracker stores for every tracked order as they were.
C16_PrimerPlanoNoAvanza ==
    [][ EsConsultaDePrimerPlano =>
            /\ pedidos_activos' = pedidos_activos
            /\ \A id \in DOMAIN pedidos_estado :
                   pedidos_estado'[id].estado = pedidos_estado[id].estado
      ]_vars

\* C16 amended: a status request or a snapshot leaves pedidos_activos, with
\* every estado_actual, the notifications and the threads as they were; a
\* snapshot leaves the tracker as it was too; a status request queries the
\* tracker for every active order, which moves the stored state of an active
\* order one step along the progression when more than UMBRAL seconds have
\* passed since its last change and the end is not reached, and leaves
\* every other entry alone.
C16_PrimerPlanoSoloRastreador ==
    [][ EsConsultaDePrimerPlano =>
            /\ pedidos_activos' = pedidos_activos
            /\ notificaciones' = notificaciones
            /\ hilos' = hilos
            /\ monitoreo_activo' = monitoreo_activo
            /\ respuesta'.tipo = "estado_sistema" => pedidos_estado' = pedidos_estado
            /\ respuesta'.tipo = "estado" =>
                   /\ DOMAIN pedidos_estado' = DOMAIN pedidos_estado \cup Ids(pedidos_activos)
                   /\ \A id \in DOMAIN pedidos_estado :
                          LET antes == pedidos_estado[id]
                              despues == pedidos_estado'[id]
                          IN  IF /\ id \in Ids(pedidos_activos)
                                 /\ antes.desde_ultimo_cambio > UMBRAL
                                 /\ antes.indice_progresion < Len(progresion_estados) - 1
                              THEN /\ despues.indice_progresion = antes.indice_progresion + 1
                                   /\ despues.estado =
                                          progresion_estados[despues.indice_progresion + 1]
                                   /\ despues.desde_ultimo_cambio = 0
                              ELSE despues = antes
      ]_vars

\* C16 witness: a status request has just moved the tracker's state of an
\* active order from CONFIRMANDO to EN_PREPARACION, and estado_actual of the
\* order is still CONFIRMANDO.
C16_Testigo ==
    /\ respuesta.tipo = "estado"
    /\ \E c \in ConsultasHechas :
           /\ c.antes.estado = CONFIRMANDO
           /\ c.despues.estado = EN_PREPARACION
           /\ pedidos_estado[c.id].estado = EN_PREPARACION
           /\ EstadoActual(pedidos_activos, c.id) = CONFIRMANDO

\* ------------------------------------------------- the tracker, first call

\* C17: the first call of consultar_estado_pedido for an identifier the
\* tracker has not seen returns CONFIRMANDO and leaves an entry for it in
\* CONFIRMANDO, at the start of the progression, with the time of the call as
\* the time of its last change.
C17_PrimeraConsulta ==
    \A c \in ConsultasHechas :
        c.nuevo =>
            /\ c.retorno = CONFIRMANDO
            /\ c.id \in DOMAIN pedidos_estado
            /\ pedidos_estado[c.id] =
                   [ estado |-> CONFIRMANDO,
                     desde_ultimo_cambio |-> 0,
                     indice_progresion |-> 0 ]

\* C17 witness: the call just made was the first for its identifier.
C17_Testigo ==
    \E c \in ConsultasHechas :
        /\ c.nuevo
        /\ c.id \in DOMAIN pedidos_estado
        /\ desde_primera[c.id] = 0

\* ------------------------------------------------- the room layout placer

\* the pairs of different places in positioned_items
Parejas ==
    { q \in (1..Len(positioned_items)) \X (1..Len(positioned_items)) : q[1] # q[2] }

\* a footprint grown by m on its four sides
Expandir(f, m) ==
    [ x |-> f.x - m, y |-> f.y - m, width |-> f.width + 2 * m, length |-> f.length + 2 * m ]

\* two rectangles share a piece of floor
Solapan(f, g) ==
    /\ f.x < g.x + g.width
    /\ g.x < f.x + f.width
    /\ f.y < g.y + g.length
    /\ g.y < f.y + f.length

\* C18 as stated: no two placed footprints, each grown by the margin on all
\* sides, overlap.
C18_ExpandidosNoSolapan ==
    \A q \in Parejas :
        ~Solapan(Expandir(positioned_items[q[1]], MARGEN),
                 Expandir(positioned_items[q[2]], MARGEN))

\* C18 amended: no placed footprint grown by the margin on all sides
\* overlaps another placed footprint.
C18_ExpandidoNoSolapaOtro ==
    \A q \in Parejas :
        ~Solapan(Expandir(positioned_items[q[1]], MARGEN), positioned_items[q[2]])

\* C18 witness: a completed layout with two footprints less than twice the
\* margin apart, whose grown footprints overlap.
C18_Testigo ==
    /\ layout # None
    /\ \E q \in Parejas :
           /\ Solapan(Expandir(positioned_items[q[1]], MARGEN),
                      Expandir(positioned_items[q[2]], MARGEN))
           /\ ~Solapan(Expandir(positioned_items[q[1]], MARGEN), positioned_items[q[2]])

\* C19: every placed item lies inside the room.
C19_DentroDeLaHabitacion ==
    \A k \in 1..Len(positioned_items) :
        LET f == positioned_items[k]
            room == room_dimensions[1]
        IN  /\ 0 <= f.x
            /\ 0 <= f.y
            /\ f.x + f.width <= room.width
            /\ f.y + f.length <= room.length

\* C19 witness: a completed layout of three items, one of them placed away
\* from the first column and the first row of the grid.
C19_Testigo ==
    /\ layout # None
    /\ Len(layout[1].furniture) = 3
    /\ \E k \in 1..3 :
           /\ layout[1].furniture[k].x > BORDE
           /\ layout[1].furniture[k].y > BORDE

\* C20: any two placed footprints are at least the margin apart along x or
\* along y.
C20_SeparadosPorMargen ==
    \A q \in Parejas :
        LET f == positioned_items[q[1]]
            g == positioned_items[q[2]]
        IN  \/ g.x - (f.x + f.width) >= MARGEN
            \/ f.x - (g.x + g.width) >= MARGEN
            \/ g.y - (f.y + f.length) >= MARGEN
            \/ f.y - (g.y + g.length) >= MARGEN

\* C20 witness: a completed layout with two footprints exactly the margin
\* apart along y and less than the margin apart along x.
C20_Testigo ==
    /\ layout # None
    /\ \E q \in Parejas :
           LET f == positioned_items[q[1]]
               g == positioned_items[q[2]]
           IN  /\ g.y - (f.y + f.length) = MARGEN
               /\ g.x - (f.x + f.width) < MARGEN
               /\ f.x - (g.x + g.width) < MARGEN

\* C21: a call of generate_room_layout returns the layout that the call
\* before it returned for the same list of items and the same room: the
\* same items at the same positions, the same total_area_used and the same
\* area_efficiency.
C21_MismaEntradaMismoLayout ==
    (layout # None /\ layout_anterior # None) => layout = layout_anterior

\* C21 witness: a call has returned three placed items for arguments that
\* the call before it was given too.
C21_Testigo ==
    /\ layout # None
    /\ layout_anterior # None
    /\ Len(layout[1].furniture) = 3

\* the points of the grid of step GRID_SIZE that begins BORDE from the walls
\* x = 0 and y = 0
Rejilla ==
    { << BORDE + i * GRID_SIZE, BORDE + j * GRID_SIZE >> : i \in 0..8, j \in 0..8 }

\* p comes before q in the scan, x in the outer loop and y in the inner one
AntesEnElBarrido(p, q) == p[1] < q[1] \/ (p[1] = q[1] /\ p[2] < q[2])

\* the footprint of item at p stays within the bounds of the room
DentroDeLimites(p, item, room) ==
    /\ p[1] + item.width <= room.width
    /\ p[2] + item.length <= room.length

\* the footprint of item at p ends more than BORDE before the far walls
DentroConBorde(p, item, room) ==
    /\ p[1] + item.width + BORDE < room.width
    /\ p[2] + item.length + BORDE < room.length

\* the grid positions a first-fit placer may give to item
Validas(item, room, con_borde) ==
    { p \in Rejilla :
        /\ IF con_borde THEN DentroConBorde(p, item, room)
                        ELSE DentroDeLimites(p, item, room)
        /\ \A k \in 1..Len(positioned_items) :
               LET f == positioned_items[k]
               IN  \/ f.x - (p[1] + item.width) >= MARGEN
                   \/ p[1] - (f.x + f.width) >= MARGEN
                   \/ f.y - (p[2] + item.length) >= MARGEN
                   \/ p[2] - (f.y + f.length) >= MARGEN }

\* b holds the items of a, each as often as a does
EsPermutacion(a, b) ==
    /\ Len(a) = Len(b)
    /\ \E f \in [ 1..Len(a) -> 1..Len(a) ] :
           /\ \A i, j \in 1..Len(a) : i # j => f[i] # f[j]
           /\ \A i \in 1..Len(a) : b[i] = a[f[i]]

\* a step of the placer is a step of greedy first-fit
PasoDePrimerAjuste(con_borde) ==
    /\ (room_dimensions' # room_dimensions \/ layout' # layout) /\ layout' = None =>
           /\ EsPermutacion(furniture_items', sorted_furniture')
           /\ \A i, j \in 1..Len(sorted_furniture') :
                  i < j => Area(sorted_furniture'[i]) >= Area(sorted_furniture'[j])
    /\ EnCurso /\ sorted_furniture' # sorted_furniture =>
           LET item == Head(sorted_furniture)
               validas == Validas(item, room_dimensions[1], con_borde)
           IN  IF validas = {}
               THEN positioned_items' = positioned_items
               ELSE LET p == CHOOSE a \in validas :
                                 \A b \in validas : a = b \/ AntesEnElBarrido(a, b)
                    IN  positioned_items' = Append(positioned_items,
                            [ id |-> item.id, x |-> p[1], y |-> p[2],
                              width |-> item.width, length |-> item.length ])

\* C22 as stated: the items are taken by descending area, and each gets the
\* first grid position of the scan at which its footprint is within the
\* bounds of the room and free of conflicts; it is dropped only when the
\* grid has no such position.
C22_PrimerAjusteEnLimites == [][PasoDePrimerAjuste(FALSE)]_vars

\* C22 amended: the items are taken by descending area, and each gets the
\* first grid position of the scan at which its footprint ends more than
\* BORDE before the far walls and is free of conflicts; it is dropped
\* exactly when the grid has no such position.
C22_PrimerAjusteConBorde == [][PasoDePrimerAjuste(TRUE)]_vars

\* C22 witness: a completed layout of a room with positive sides in which an
\* item was dropped and another was placed away from the first grid point.
C22_Testigo ==
    /\ layout # None
    /\ room_dimensions[1].width > 0 /\ room_dimensions[1].length > 0
    /\ 0 < Len(layout[1].furniture)
    /\ Len(layout[1].furniture) < Len(furniture_items)
    /\ \E k \in 1..Len(layout[1].furniture) : layout[1].furniture[k].x > BORDE

\* the footprint of item is wider or longer than the room
Excede(item, room) == item.width > room.width \/ item.length > room.length

\* C23: an item whose footprint is wider or longer than the room is never
\* placed: its turn of the loop leaves the placed items as they were and
\* the call goes on with the items that remain.
C23_DemasiadoGrandeNoSeColoca ==
    [][ /\ \A k \in 1..Len(positioned_items') :
              ~Excede(positioned_items'[k], room_dimensions'[1])
        /\ (EnCurso /\ sorted_furniture # << >>
               /\ Excede(Head(sorted_furniture), room_dimensions[1])) =>
              /\ positioned_items' = positioned_items
              /\ sorted_furniture' = Tail(sorted_furniture)
              /\ room_dimensions' = room_dimensions
              /\ layout' = None ]_vars

\* C23 witness: a completed layout of a room with positive sides whose list
\* had an item wider than the room, dropped, and a smaller item, placed
\* after it.
C23_Testigo ==
    /\ layout # None
    /\ room_dimensions[1].width > 0 /\ room_dimensions[1].length > 0
    /\ \E i \in 1..Len(furniture_items) :
           /\ Excede(furniture_items[i], room_dimensions[1])
           /\ \E k \in 1..Len(layout[1].furniture) :
                  Area(layout[1].furniture[k]) < Area(furniture_items[i])

\* C24: a call for a room whose width or length is zero or negative returns
\* a layout with no furniture, total_area_used 0 and area_efficiency 0, the
\* quotient being defined, whatever the list of items.
C24_HabitacionNoPositiva ==
    (layout # None /\ (layout[1].room.width <= 0 \/ layout[1].room.length <= 0)) =>
        /\ layout[1].furniture = << >>
        /\ layout[1].total_area_used = 0
        /\ layout[1].area_efficiency.den > 0
        /\ layout[1].area_efficiency.num = 0

\* C24 witness: a call with three items has returned for a room of width
\* zero and negative length.
C24_Testigo ==
    /\ layout # None
    /\ layout[1].room.width = 0
    /\ layout[1].room.length < 0
    /\ Len(furniture_items) = 3

\* the sum of width times length over the first n items of a list
RECURSIVE SumaDeAreas(_, _)
SumaDeAreas(items, n) ==
    IF n = 0 THEN 0
    ELSE SumaDeAreas(items, n - 1) + items[n].width * items[n].length

\* C25: in a returned layout total_area_used is the sum of width times
\* length over the items of its furniture list, which are the items placed
\* and no others, and area_efficiency is that sum over the area of the room
\* (as a percentage).
C25_AreaYEficiencia ==
    layout # None =>
        LET l == layout[1]
        IN  /\ l.furniture = positioned_items
            /\ l.total_area_used = SumaDeAreas(l.furniture, Len(l.furniture))
            /\ l.room.width * l.room.length > 0 =>
                   /\ l.area_efficiency.num = 100 * l.total_area_used
                   /\ l.area_efficiency.den = l.room.width * l.room.length

\* C25 witness: a returned layout of a 4 x 4 room in which two of three
\* items were placed; its efficiency is positive.
C25_Testigo ==
    /\ layout # None
    /\ layout[1].room = [ width |-> 400, length |-> 400 ]
    /\ Len(furniture_items) = 3
    /\ Len(layout[1].furniture) = 2
    /\ layout[1].area_efficiency.num > 0

\* C29: in a layout returned for a room with positive sides, total_area_used
\* is at most the width of the room times its length, and area_efficiency
\* is at most 100 per cent.
C29_AreaAcotada ==
    (layout # None /\ layout[1].room.width > 0 /\ layout[1].room.length > 0) =>
        /\ layout[1].total_area_used <= layout[1].room.width * layout[1].room.length
        /\ layout[1].area_efficiency.num <= 100 * layout[1].area_efficiency.den

\* C29 witness: a layout returned for a room with positive sides which was
\* given three items and whose placed items cover more than 40 per cent of
\* the floor.
C29_Testigo ==
    /\ layout # None
    /\ layout[1].room.width > 0 /\ layout[1].room.length > 0
    /\ Len(furniture_items) = 3
    /\ 5 * layout[1].area_efficiency.num > 200 * layout[1].area_efficiency.den

\* ------------------------------------------------------------ the tracker

\* C27 as stated: a call changes the stored entry of an order only when more
\* than the threshold has elapsed since its last change and its state is not
\* EN_CAMINO.
C27_NoAvanzaDesdeEnCamino ==
    \A c \in ConsultasHechas :
        c.despues # c.antes =>
            /\ c.transcurrido > UMBRAL
            /\ c.antes.estado # EN_CAMINO

\* C27 amended: a call advances the stored entry by one place, and restarts
\* the time since its last change, exactly when more than the threshold has
\* elapsed since that change and the place reached in the progression is
\* not its last one, ENTREGADO; in every other case the entry is left as it
\* was.
C27_AvanzaSalvoDesdeElUltimo ==
    \A c \in ConsultasHechas :
        IF c.transcurrido > UMBRAL
              /\ c.antes.indice_progresion < Len(progresion_estados) - 1
        THEN c.despues =
                 [ estado |-> progresion_estados[c.antes.indice_progresion + 2],
                   desde_ultimo_cambio |-> 0,
                   indice_progresion |-> c.antes.indice_progresion + 1 ]
        ELSE c.despues = c.antes

\* C27 witness: a call made after the threshold on an order stored as
\* EN_CAMINO left it stored as ENTREGADO, changed just now.
C27_Testigo ==
    \E c \in ConsultasHechas :
        /\ c.transcurrido > UMBRAL
        /\ c.antes.estado = EN_CAMINO
        /\ c.antes.indice_progresion = 3
        /\ c.despues.estado = ENTREGADO
        /\ c.despues.desde_ultimo_cambio = 0

\* ------------------------------------------------------ the monitor loop

\* C28: for the states of the chain CONFIRMANDO .. ENTREGADO, the
\* estado_actual of an active order is never later in the chain than the
\* state the tracker stores for it, and the calls of the callback for one
\* order come in strictly increasing order of the chain.
C28_OrdenDelCicloDeVida ==
    /\ \A id \in Ids(pedidos_activos) \cap DOMAIN pedidos_estado :
           (/\ EstadoActual(pedidos_activos, id) \in SeqToSet(progresion_estados)
            /\ pedidos_estado[id].estado \in SeqToSet(progresion_estados)) =>
               Posicion(EstadoActual(pedidos_activos, id))
                   <= Posicion(pedidos_estado[id].estado)
    /\ \A id \in Pedidos :
           \A i, j \in 1..Len(notificaciones[id]) :
               (/\ i < j
                /\ notificaciones[id][i].estado \in SeqToSet(progresion_estados)
                /\ notificaciones[id][j].estado \in SeqToSet(progresion_estados)) =>
                   Posicion(notificaciones[id][i].estado)
                       < Posicion(notificaciones[id][j].estado)

\* ---------------------------------------------------- the foreground flow

\* a step in which iniciar_pago is called: it either issues an order id or
\* fails, and then the payment error is returned
SeIniciaPago == emitidos' = emitidos + 1 \/ respuesta'.tipo = "error_pago"

\* C26: iniciar_pago is called only while a confirmation is pending with a
\* product, only for a request by which the user means yes, and the amount
\* paid is total_pendiente, the total that the cost prompt showed for the
\* pending product; the prompt shows the total it stores, and the pending
\* product and total stay as they are while the confirmation is pending.
C26_ConfirmacionAntesDelPago ==
    [][ /\ SeIniciaPago =>
              /\ esperando_confirmacion
              /\ producto_pendiente # None
              /\ \A s \in Solicitudes :
                     Destino(s.texto, esperando_confirmacion) = "ejecutar_pago"
                         => s.clase = "afirmativa"
              /\ emitidos' = emitidos + 1 =>
                     /\ Ultima(pedidos_activos').total_pagado = total_pendiente
                     /\ total_pendiente =
                            Valor(ver_total(<< producto_pendiente[1] >>))
        /\ respuesta'.tipo = "confirmar" =>
              /\ esperando_confirmacion'
              /\ total_pendiente' = Valor(respuesta'.total_pedido)
        /\ esperando_confirmacion /\ esperando_confirmacion' =>
              /\ total_pendiente' = total_pendiente
              /\ producto_pendiente' = producto_pendiente
      ]_vars

\* C30: procesar_solicitud never ends without returning a text.
C30_SiempreResponde == respuesta # Respuesta("None")

====
